---- MODULE Spec2Model ----
(***************************************************************************)
(* goNet: the bencode decoder and torrent projection of                    *)
(* bitTorrentClient/bencodeDecoder.go and the Announcer byte and event     *)
(* bookkeeping of the tracker announcer.                                   *)
(*                                                                         *)
(* A Go string / []byte is a sequence of one-character strings.  A value   *)
(* of type interface{} is a record [t, v]: t is the dynamic type.          *)
(* A (value, error) result of the decoder is a record [val, err, pos],     *)
(* pos being the number of bytes the bufio.Reader has handed out so far.   *)
(***************************************************************************)
EXTENDS Integers, Sequences, FiniteSets, TLC

VARIABLES input, pc, data, err, pos, torrent, infoMap, info, ann, hist

vars == <<input, pc, data, err, pos, torrent, infoMap, info, ann, hist>>

(***************************************************************************)
(* Bounds of the model.                                                    *)
(***************************************************************************)
MaxLen == 4

(***************************************************************************)
(* Errors.                                                                 *)
(***************************************************************************)
Nil == "nil"
EOF == "EOF"
ErrUnexpectedEOF == "unexpected EOF"
ErrSyntax == "strconv.ParseInt: invalid syntax"
PanicMakeslice == "panic: runtime error: makeslice: len out of range"

(***************************************************************************)
(* interface{} values.                                                     *)
(***************************************************************************)
NilV == [t |-> "nil", v |-> <<>>]
IntV(n) == [t |-> "int64", v |-> n]
StrV(s) == [t |-> "string", v |-> s]
ListV(l) == [t |-> "list", v |-> l]
DictV(m) == [t |-> "map", v |-> m]

NUL == "\\x00"
Digit == {"0", "1", "2", "3", "4", "5", "6", "7", "8", "9"}

DigitVal(c) ==
  CASE c = "0" -> 0 [] c = "1" -> 1 [] c = "2" -> 2 [] c = "3" -> 3
    [] c = "4" -> 4 [] c = "5" -> 5 [] c = "6" -> 6 [] c = "7" -> 7
    [] c = "8" -> 8 [] c = "9" -> 9

RECURSIVE digitsValue(_)
digitsValue(ds) ==
  IF ds = <<>> THEN 0
  ELSE 10 * digitsValue(SubSeq(ds, 1, Len(ds) - 1)) + DigitVal(ds[Len(ds)])

(* strconv.ParseInt(s, 10, 64): an optional sign '+' or '-', then one or   *)
(* more decimal digits.  The digit runs of the model are short, so the     *)
(* out-of-range result is never produced.                                  *)
ParseInt(s) ==
  IF s = <<>> THEN [n |-> 0, err |-> ErrSyntax]
  ELSE LET neg == s[1] = "-"
           body == IF s[1] \in {"+", "-"} THEN Tail(s) ELSE s
       IN IF body = <<>> \/ \E k \in 1..Len(body) : body[k] \notin Digit
          THEN [n |-> 0, err |-> ErrSyntax]
          ELSE [n |-> IF neg THEN 0 - digitsValue(body) ELSE digitsValue(body),
                err |-> Nil]

R(val, e, p) == [val |-> val, err |-> e, pos |-> p]

(* d.reader.ReadByte() *)
next(in, p) ==
  IF p >= Len(in) THEN [ch |-> NUL, err |-> EOF, pos |-> p]
  ELSE [ch |-> in[p + 1], err |-> Nil, pos |-> p + 1]

(* ReadByte followed by UnreadByte: the cursor does not move *)
peek(in, p) ==
  LET r == next(in, p)
  IN IF r.err # Nil THEN [ch |-> NUL, err |-> r.err, pos |-> p]
     ELSE [ch |-> r.ch, err |-> Nil, pos |-> p]

(* the loops of decodeInt and decodeString: append bytes up to the stop byte *)
RECURSIVE readUntil(_, _, _, _)
readUntil(in, p, stop, buf) ==
  LET r == next(in, p)
  IN IF r.err # Nil THEN [buf |-> buf, err |-> r.err, pos |-> r.pos]
     ELSE IF r.ch = stop THEN [buf |-> buf, err |-> Nil, pos |-> r.pos]
     ELSE readUntil(in, r.pos, stop, Append(buf, r.ch))

decodeInt(in, p) ==
  LET first == next(in, p)
  IN IF first.err # Nil THEN R(0, first.err, first.pos)
     ELSE LET num == readUntil(in, first.pos, "e", <<>>)
          IN IF num.err # Nil THEN R(0, num.err, num.pos)
             ELSE LET parsed == ParseInt(num.buf)
                  IN R(parsed.n, parsed.err, num.pos)

(* io.ReadFull(d.reader, strBytes) into a zeroed buffer of n bytes *)
ReadFull(in, p, n) ==
  LET avail == Len(in) - p
  IN IF avail >= n THEN R(SubSeq(in, p + 1, p + n), Nil, p + n)
     ELSE R(SubSeq(in, p + 1, Len(in)) \o [k \in 1..(n - avail) |-> NUL],
            IF avail = 0 THEN EOF ELSE ErrUnexpectedEOF, Len(in))

(* make([]byte, length) panics on a negative length; the lengths of the    *)
(* model have at most a few digits, so the allocation itself succeeds.     *)
(* On a short read the zeroed buffer is returned along with the error.     *)
decodeString(in, p) ==
  LET len == readUntil(in, p, ":", <<>>)
  IN IF len.err # Nil THEN R(<<>>, len.err, len.pos)
     ELSE LET parsed == ParseInt(len.buf)
          IN IF parsed.err # Nil THEN R(<<>>, parsed.err, len.pos)
             ELSE IF parsed.n < 0 THEN R(<<>>, PanicMakeslice, len.pos)
             ELSE ReadFull(in, len.pos, parsed.n)

(* variant of closeAggregate: the closing 'e' is peeked at and left unread *)
closeAggregateUnread(in, p) == p

(* the closing 'e' of a list or dictionary is consumed: _, _ = d.next() *)
closeAggregate(in, p) == next(in, p).pos

(* dict[key] = value *)
mapSet(m, key, value) ==
  [k \in (DOMAIN m) \cup {key} |-> IF k = key THEN value ELSE m[k]]

RECURSIVE decode(_, _)
RECURSIVE decodeListLoop(_, _, _)
RECURSIVE decodeDictLoop(_, _, _)

decodeListLoop(in, p, list) ==
  LET pk == peek(in, p)
  IN IF pk.err # Nil THEN R(ListV(<<>>), pk.err, pk.pos)
     ELSE IF pk.ch = "e" THEN R(ListV(list), Nil, closeAggregate(in, p))
     ELSE LET item == decode(in, p)
          IN IF item.err # Nil THEN R(ListV(<<>>), item.err, item.pos)
             ELSE decodeListLoop(in, item.pos, Append(list, item.val))

decodeList(in, p) ==
  LET first == next(in, p)
  IN IF first.err # Nil THEN R(ListV(<<>>), first.err, first.pos)
     ELSE decodeListLoop(in, first.pos, <<>>)

decodeDictLoop(in, p, dict) ==
  LET pk == peek(in, p)
  IN IF pk.err # Nil THEN R(DictV(<<>>), pk.err, pk.pos)
     ELSE IF pk.ch = "e" THEN R(DictV(dict), Nil, closeAggregate(in, p))
     ELSE LET key == decodeString(in, p)
          IN IF key.err # Nil THEN R(DictV(<<>>), key.err, key.pos)
             ELSE LET value == decode(in, key.pos)
                  IN IF value.err # Nil THEN R(DictV(<<>>), value.err, value.pos)
                     ELSE decodeDictLoop(in, value.pos,
                                         mapSet(dict, key.val, value.val))

decodeDict(in, p) ==
  LET first == next(in, p)
  IN IF first.err # Nil THEN R(DictV(<<>>), first.err, first.pos)
     ELSE decodeDictLoop(in, first.pos, <<>>)

decode(in, p) ==
  LET pk == peek(in, p)
  IN IF pk.err # Nil THEN R(NilV, pk.err, pk.pos)
     ELSE CASE pk.ch = "i" ->
                 LET r == decodeInt(in, p) IN R(IntV(r.val), r.err, r.pos)
            [] pk.ch \in Digit ->
                 LET r == decodeString(in, p) IN R(StrV(r.val), r.err, r.pos)
            [] pk.ch = "l" -> decodeList(in, p)
            [] pk.ch = "d" -> decodeDict(in, p)
            [] OTHER -> R(NilV, "unexpected character '" \o pk.ch \o "'", p)

(***************************************************************************)
(* The dictionary keys the projection looks up, as Go strings.             *)
(***************************************************************************)
K_announce == <<"a", "n", "n", "o", "u", "n", "c", "e">>
K_announce_list == <<"a", "n", "n", "o", "u", "n", "c", "e", "-", "l", "i", "s", "t">>
K_creation_date == <<"c", "r", "e", "a", "t", "i", "o", "n", " ", "d", "a", "t", "e">>
K_comment == <<"c", "o", "m", "m", "e", "n", "t">>
K_created_by == <<"c", "r", "e", "a", "t", "e", "d", " ", "b", "y">>
K_info == <<"i", "n", "f", "o">>
K_piece_length == <<"p", "i", "e", "c", "e", " ", "l", "e", "n", "g", "t", "h">>
K_pieces == <<"p", "i", "e", "c", "e", "s">>
K_name == <<"n", "a", "m", "e">>
K_private == <<"p", "r", "i", "v", "a", "t", "e">>
K_length == <<"l", "e", "n", "g", "t", "h">>
K_files == <<"f", "i", "l", "e", "s">>
K_path == <<"p", "a", "t", "h">>

(* m[k] on a map[string]interface{}: the nil interface when k is absent *)
Has(m, k) == k \in DOMAIN m
Get(m, k) == IF Has(m, k) THEN m[k] ELSE NilV

(* a range loop that returns at the first element with an error: the least *)
(* index of errs holding an error, 0 when there is none                    *)
FirstBad(errs) ==
  IF \E k \in 1..Len(errs) : errs[k] # Nil
  THEN CHOOSE k \in 1..Len(errs) :
         errs[k] # Nil /\ \A j \in 1..(k - 1) : errs[j] = Nil
  ELSE 0

ZeroInfo ==
  [PieceLength |-> 0, Pieces |-> <<>>, Private |-> 0, Name |-> <<>>,
   Length |-> 0, Files |-> <<>>]

ZeroTorrent ==
  [Announce |-> <<>>, AnnounceList |-> <<>>, CreationDate |-> 0,
   Comment |-> <<>>, CreatedBy |-> <<>>, Info |-> ZeroInfo]

(* a step of a projection: the structure so far and the error it returns *)
Step(o, e) == [out |-> o, err |-> e]

(***************************************************************************)
(* parseTorrentInfo, one definition per field in the order of the code.    *)
(***************************************************************************)
pieceLengthField(m, o) ==
  IF Has(m, K_piece_length)
  THEN IF m[K_piece_length].t # "int64"
       THEN Step(o, "piece length is not an integer")
       ELSE Step([o EXCEPT !.PieceLength = m[K_piece_length].v], Nil)
  ELSE Step(o, "missing required field 'piece length'")

piecesField(m, o) ==
  IF Has(m, K_pieces)
  THEN IF m[K_pieces].t # "string"
       THEN Step(o, "pieces is not a string")
       ELSE Step([o EXCEPT !.Pieces = m[K_pieces].v], Nil)
  ELSE Step(o, "missing required field 'pieces'")

nameField(m, o) ==
  IF Get(m, K_name).t = "string"
  THEN Step([o EXCEPT !.Name = m[K_name].v], Nil)
  ELSE Step(o, "missing required field 'name'")

privateField(m, o) ==
  IF Has(m, K_private)
  THEN IF m[K_private].t # "int64"
       THEN Step(o, "private is not an integer")
       ELSE Step([o EXCEPT !.Private = m[K_private].v], Nil)
  ELSE Step(o, Nil)

(* the error of one entry of files, Nil when the entry is well formed *)
fileErr(f) ==
  IF f.t # "map" THEN "file entry is not a dictionary"
  ELSE IF ~Has(f.v, K_length) THEN "file missing length"
  ELSE IF f.v[K_length].t # "int64" THEN "file length is not an integer"
  ELSE IF ~Has(f.v, K_path) THEN "file missing path"
  ELSE IF f.v[K_path].t # "list" THEN "file path is not a list"
  ELSE IF \E k \in 1..Len(f.v[K_path].v) : f.v[K_path].v[k].t # "string"
       THEN "path part is not a string"
  ELSE Nil

torrentFile(f) ==
  [Length |-> f.v[K_length].v,
   Path |-> [k \in 1..Len(f.v[K_path].v) |-> f.v[K_path].v[k].v]]

filesField(m, o) ==
  IF m[K_files].t # "list" THEN Step(o, "files is not a list")
  ELSE LET bad == FirstBad([k \in 1..Len(m[K_files].v) |-> fileErr(m[K_files].v[k])])
       IN IF bad # 0 THEN Step(o, fileErr(m[K_files].v[bad]))
          ELSE Step([o EXCEPT !.Files =
                       [k \in 1..Len(m[K_files].v) |-> torrentFile(m[K_files].v[k])]],
                    Nil)

(* variant of layoutField: the type of length is examined before the       *)
(* presence of files                                                       *)
layoutFieldLengthFirst(m, o) ==
  LET hasLength == Has(m, K_length)
      hasFiles == Has(m, K_files)
  IN IF hasLength /\ m[K_length].t # "int64"
     THEN Step(o, "length is not an integer")
     ELSE IF hasLength /\ hasFiles
          THEN Step(o, "info contains both length and files")
     ELSE IF hasLength THEN Step([o EXCEPT !.Length = m[K_length].v], Nil)
     ELSE IF hasFiles THEN filesField(m, o)
     ELSE Step(o, "info missing both length and files")

(* the single-file / multi-file layout: lines 311-366 *)
layoutField(m, o) ==
  LET hasLength == Has(m, K_length)
      hasFiles == Has(m, K_files)
  IN IF hasLength /\ hasFiles THEN Step(o, "info contains both length and files")
     ELSE IF hasLength
          THEN IF m[K_length].t # "int64" THEN Step(o, "length is not an integer")
               ELSE Step([o EXCEPT !.Length = m[K_length].v], Nil)
     ELSE IF hasFiles THEN filesField(m, o)
     ELSE Step(o, "info missing both length and files")

(* variant of parseTorrentInfo: the length/files layout is examined before *)
(* the required scalar fields                                              *)
parseTorrentInfoLayoutFirst(m) ==
  LET s0 == layoutField(m, ZeroInfo)
  IN IF s0.err # Nil THEN [ptr |-> <<>>, err |-> s0.err]
     ELSE LET s1 == pieceLengthField(m, s0.out)
     IN IF s1.err # Nil THEN [ptr |-> <<>>, err |-> s1.err]
     ELSE LET s2 == piecesField(m, s1.out)
     IN IF s2.err # Nil THEN [ptr |-> <<>>, err |-> s2.err]
     ELSE LET s3 == nameField(m, s2.out)
     IN IF s3.err # Nil THEN [ptr |-> <<>>, err |-> s3.err]
     ELSE LET s4 == privateField(m, s3.out)
     IN [ptr |-> IF s4.err = Nil THEN <<s4.out>> ELSE <<>>, err |-> s4.err]

(* a failing step returns (nil, err); the pointer is <<>> or <<structure>> *)
Ptr(s) == [ptr |-> IF s.err = Nil THEN <<s.out>> ELSE <<>>, err |-> s.err]

parseTorrentInfo(m) ==
  LET s1 == pieceLengthField(m, ZeroInfo)
  IN IF s1.err # Nil THEN Ptr(s1)
     ELSE LET s2 == piecesField(m, s1.out)
     IN IF s2.err # Nil THEN Ptr(s2)
     ELSE LET s3 == nameField(m, s2.out)
     IN IF s3.err # Nil THEN Ptr(s3)
     ELSE LET s4 == privateField(m, s3.out)
     IN IF s4.err # Nil THEN Ptr(s4)
     ELSE Ptr(layoutField(m, s4.out))

(***************************************************************************)
(* parseTorrent, one definition per field in the order of the code.        *)
(***************************************************************************)
announceField(m, o) ==
  IF Get(m, K_announce).t = "string"
  THEN Step([o EXCEPT !.Announce = m[K_announce].v], Nil)
  ELSE Step(o, "missing required field 'announce'")

tierErr(tier) ==
  IF tier.t # "list" THEN "announce-list tier is not a list"
  ELSE IF \E k \in 1..Len(tier.v) : tier.v[k].t # "string"
       THEN "announce-list contains non-string URL"
  ELSE Nil

announceListField(m, o) ==
  IF Has(m, K_announce_list)
  THEN IF m[K_announce_list].t # "list" THEN Step(o, "announce-list is not a list")
       ELSE LET tiers == m[K_announce_list].v
                bad == FirstBad([k \in 1..Len(tiers) |-> tierErr(tiers[k])])
            IN IF bad # 0 THEN Step(o, tierErr(tiers[bad]))
               ELSE Step([o EXCEPT !.AnnounceList =
                            [k \in 1..Len(tiers) |->
                               [j \in 1..Len(tiers[k].v) |-> tiers[k].v[j].v]]],
                         Nil)
  ELSE Step(o, Nil)

creationDateField(m, o) ==
  IF Has(m, K_creation_date)
  THEN IF m[K_creation_date].t # "int64"
       THEN Step(o, "creation date is not an integer")
       ELSE Step([o EXCEPT !.CreationDate = m[K_creation_date].v], Nil)
  ELSE Step(o, Nil)

commentField(m, o) ==
  IF Get(m, K_comment).t = "string"
  THEN Step([o EXCEPT !.Comment = m[K_comment].v], Nil)
  ELSE Step(o, Nil)

createdByField(m, o) ==
  IF Get(m, K_created_by).t = "string"
  THEN Step([o EXCEPT !.CreatedBy = m[K_created_by].v], Nil)
  ELSE Step(o, Nil)

infoField(m, o) ==
  IF ~Has(m, K_info) THEN Step(o, "missing required field 'info'")
  ELSE IF m[K_info].t # "map" THEN Step(o, "info is not a dictionary")
  ELSE LET r == parseTorrentInfo(m[K_info].v)
       IN IF r.err # Nil THEN Step(o, "error parsing info: " \o r.err)
          ELSE Step([o EXCEPT !.Info = r.ptr[1]], Nil)

parseTorrent(d) ==
  IF d.t # "map" THEN [ptr |-> <<>>, err |-> "top-level data is not a dictionary"]
  ELSE LET s1 == announceField(d.v, ZeroTorrent)
  IN IF s1.err # Nil THEN Ptr(s1)
     ELSE LET s2 == announceListField(d.v, s1.out)
     IN IF s2.err # Nil THEN Ptr(s2)
     ELSE LET s3 == creationDateField(d.v, s2.out)
     IN IF s3.err # Nil THEN Ptr(s3)
     ELSE Ptr(infoField(d.v, createdByField(d.v, commentField(d.v, s3.out).out).out))

(***************************************************************************)
(* The Announcer.                                                          *)
(***************************************************************************)
ZeroAnnouncer ==
  [announce_url |-> "", piece_size |-> 0, TotalSize |-> 0,
   urlParams |-> [info_dict |-> "", peer_id |-> "", port |-> "",
                  uploaded |-> 0, downloaded |-> 0, left |-> 0,
                  compact |-> "", event |-> ""]]

(* the composite literal NewAnnouncer returns, from the values of its      *)
(* locals url, piece_len, length, sha1_info_dict and uniquePeerId; the     *)
(* field TotalSize is not named in the literal and keeps its zero value    *)
NewAnnouncer(url, piece_len, length, sha1_info_dict, uniquePeerId) ==
  [announce_url |-> url, piece_size |-> piece_len, TotalSize |-> 0,
   urlParams |-> [info_dict |-> sha1_info_dict, peer_id |-> uniquePeerId,
                  port |-> "6881", uploaded |-> 0, downloaded |-> 0,
                  left |-> length, compact |-> "1", event |-> "started"]]

handleNewPieceLeeched(a, bytesDownloaded) ==
  LET d == a.urlParams.downloaded + bytesDownloaded
  IN [a EXCEPT !.urlParams.downloaded = d, !.urlParams.left = a.TotalSize - d]

handleNewPieceSeeded(a) ==
  [a EXCEPT !.urlParams.uploaded = a.urlParams.uploaded + a.piece_size]

(* variant of setEvent: the default case stores the name it was given *)
setEventStoresAny(a, newEvent) == [a EXCEPT !.urlParams.event = newEvent]

setEvent(a, newEvent) ==
  [a EXCEPT !.urlParams.event =
     CASE newEvent = "started" -> newEvent
       [] newEvent = "completed" -> newEvent
       [] newEvent = "stopped" -> newEvent
       [] OTHER -> ""]

(***************************************************************************)
(* Inputs of the decoder: every byte string of at most MaxLen bytes over   *)
(* Alphabet, the examples below, and a minimal single-file torrent with    *)
(* its truncations and one-byte substitutions.                             *)
(***************************************************************************)
Alphabet == {"i", "e", "l", "d", ":", "0", "1", "-", "+", "s"}

ShortInputs == UNION {[1..k -> Alphabet] : k \in 0..MaxLen}

In_i0e == <<"i", "0", "e">>
In_i123e == <<"i", "1", "2", "3", "e">>
In_iNeg0e == <<"i", "-", "0", "e">>
In_iPlus5e == <<"i", "+", "5", "e">>
In_i123 == <<"i", "1", "2", "3">>
In_4spam == <<"4", ":", "s", "p", "a", "m">>
In_0colon == <<"0", ":">>
In_5spam == <<"5", ":", "s", "p", "a", "m">>
In_4spamTail == <<"4", ":", "s", "p", "a", "m", "i", "0", "e">>
In_dPlusKey == <<"d", "+", "3", ":", "a", "b", "c", "i", "1", "e", "e">>
In_dNegKey == <<"d", "-", "1", ":">>
In_dIntKey == <<"d", "i", "1", "e", "1", ":", "s", "e">>
In_list == <<"l", "4", ":", "s", "p", "a", "m", "i", "4", "2", "e", "e">>
In_dict == <<"d", "3", ":", "b", "a", "r", "4", ":", "s", "p", "a", "m", "3", ":", "f", "o", "o", "i", "4", "2", "e", "e">>
In_nestedTail == <<"l", "l", "e", "e", "i", "0", "e">>
In_dictTail == <<"d", "1", ":", "s", "l", "e", "e", "l">>
In_listBadInt == <<"l", "l", "i", "-", "e", "e">>

Examples ==
  {In_i0e, In_i123e, In_iNeg0e, In_iPlus5e, In_i123,
   In_4spam, In_0colon, In_5spam, In_4spamTail, In_dPlusKey,
   In_dNegKey, In_dIntKey, In_list, In_dict, In_nestedTail,
   In_dictTail, In_listBadInt}

DigitChar(n) == CHOOSE c \in Digit : DigitVal(c) = n
Decimal(n) == IF n < 10 THEN <<DigitChar(n)>> ELSE <<DigitChar(n \div 10), DigitChar(n % 10)>>
BStr(str) == Decimal(Len(str)) \o <<":">> \o str
BInt1 == <<"i", "1", "e">>

BaseTorrent ==
  <<"d">> \o BStr(K_announce) \o BStr(<<"s">>)
          \o BStr(K_info) \o <<"d">>
             \o BStr(K_length) \o BInt1
             \o BStr(K_name) \o BStr(<<"s">>)
             \o BStr(K_piece_length) \o BInt1
             \o BStr(K_pieces) \o BStr(<<>>)
          \o <<"e">>
  \o <<"e">>

Truncations == {SubSeq(BaseTorrent, 1, k) : k \in 0..Len(BaseTorrent)}

Substitutions ==
  {[BaseTorrent EXCEPT ![k] = c] : k \in 1..Len(BaseTorrent), c \in Alphabet}

Inputs == ShortInputs \cup Examples \cup Truncations \cup Substitutions

(***************************************************************************)
(* DecodeTorrent, step by step.                                            *)
(***************************************************************************)
Init ==
  /\ input \in Inputs
  /\ pc = "start"
  /\ data = NilV
  /\ err = Nil
  /\ pos = 0
  /\ torrent = <<>>
  /\ infoMap = <<>>
  /\ info = <<>>
  /\ ann = ZeroAnnouncer
  /\ hist = <<>>

(* data, err := decoder.decode() on a fresh decoder; a panic unwinds *)
Decode ==
  /\ pc = "start"
  /\ LET r == decode(input, 0)
     IN /\ pc' = IF r.err = PanicMakeslice THEN "panicked" ELSE "decoded"
        /\ data' = IF r.err = PanicMakeslice THEN NilV ELSE r.val
        /\ err' = r.err
        /\ pos' = r.pos
  /\ UNCHANGED <<input, torrent, infoMap, info, ann, hist>>

(* if err != nil { return nil, err } *)
ReturnDecodeError ==
  /\ pc = "decoded"
  /\ err # Nil
  /\ pc' = "done"
  /\ torrent' = <<>>
  /\ UNCHANGED <<input, data, err, pos, infoMap, info, ann, hist>>

(* return parseTorrent(data) *)
ReturnParseTorrent ==
  /\ pc = "decoded"
  /\ err = Nil
  /\ LET r == parseTorrent(data)
     IN /\ torrent' = r.ptr
        /\ err' = r.err
  /\ pc' = "done"
  /\ UNCHANGED <<input, data, pos, infoMap, info, ann, hist>>

Next == Decode \/ ReturnDecodeError \/ ReturnParseTorrent

Spec == Init /\ [][Next]_vars

(***************************************************************************)
(* parseTorrent and parseTorrentInfo applied to decoded values.            *)
(***************************************************************************)
Absent == [t |-> "absent", v |-> <<>>]

(* the map holding the entries of f whose value is not Absent *)
MkMap(f) == [k \in {j \in DOMAIN f : f[j].t # "absent"} |-> f[k]]

S1 == StrV(<<"s">>)
I1 == IntV(1)

GoodFile == DictV(MkMap(K_length :> I1 @@ K_path :> ListV(<<S1>>)))

FilesValues ==
  {Absent, I1, ListV(<<>>), ListV(<<GoodFile>>), ListV(<<I1>>),
   ListV(<<GoodFile, DictV(MkMap(K_path :> ListV(<<S1>>)))>>),
   ListV(<<DictV(MkMap(K_length :> S1 @@ K_path :> ListV(<<S1>>)))>>),
   ListV(<<DictV(MkMap(K_length :> I1))>>),
   ListV(<<DictV(MkMap(K_length :> I1 @@ K_path :> S1))>>),
   ListV(<<DictV(MkMap(K_length :> I1 @@ K_path :> ListV(<<S1, I1>>)))>>)}

InfoMaps ==
  {MkMap(K_piece_length :> pl @@ K_pieces :> ps @@ K_name :> nm
         @@ K_private :> pr @@ K_length :> ln @@ K_files :> fs) :
     pl \in {Absent, I1, S1}, ps \in {Absent, StrV(<<>>), I1},
     nm \in {Absent, S1, I1}, pr \in {Absent, I1, S1},
     ln \in {Absent, I1, S1}, fs \in FilesValues}

GoodInfo ==
  MkMap(K_piece_length :> I1 @@ K_pieces :> StrV(<<>>) @@ K_name :> S1
        @@ K_length :> I1)

TopLevels ==
  {DictV(MkMap(K_announce :> an @@ K_announce_list :> al
               @@ K_creation_date :> cd @@ K_comment :> cm
               @@ K_created_by :> cb @@ K_info :> inf)) :
     an \in {Absent, S1, I1},
     al \in {Absent, I1, ListV(<<ListV(<<S1>>)>>), ListV(<<I1>>),
             ListV(<<ListV(<<S1>>), ListV(<<I1>>)>>)},
     cd \in {Absent, I1, S1}, cm \in {Absent, S1, I1}, cb \in {Absent, S1},
     inf \in {Absent, I1, DictV(GoodInfo), DictV(<<>>),
              DictV(MkMap(K_piece_length :> I1 @@ K_pieces :> StrV(<<>>)
                          @@ K_name :> S1 @@ K_files :> ListV(<<GoodFile>>)))}}
  \cup {NilV, I1, S1, ListV(<<>>)}

InitProject ==
  /\ \/ /\ pc = "parseTorrent"
        /\ data \in TopLevels
        /\ infoMap = <<>>
     \/ /\ pc = "parseTorrentInfo"
        /\ data = NilV
        /\ infoMap \in InfoMaps
  /\ input = <<>>
  /\ err = Nil
  /\ pos = 0
  /\ torrent = <<>>
  /\ info = <<>>
  /\ ann = ZeroAnnouncer
  /\ hist = <<>>

ParseTorrent ==
  /\ pc = "parseTorrent"
  /\ LET r == parseTorrent(data)
     IN /\ torrent' = r.ptr
        /\ err' = r.err
  /\ pc' = "parsedTorrent"
  /\ UNCHANGED <<input, data, pos, infoMap, info, ann, hist>>

ParseTorrentInfo ==
  /\ pc = "parseTorrentInfo"
  /\ LET r == parseTorrentInfo(infoMap)
     IN /\ info' = r.ptr
        /\ err' = r.err
  /\ pc' = "parsedInfo"
  /\ UNCHANGED <<input, data, pos, torrent, infoMap, ann, hist>>

NextProject == ParseTorrent \/ ParseTorrentInfo

SpecProject == InitProject /\ [][NextProject]_vars

(***************************************************************************)
(* The Announcer: NewAnnouncer, then any calls of its three handlers.      *)
(* hist records the total length NewAnnouncer computed, the sum of the     *)
(* byte counts passed to handleNewPieceLeeched, the last call and the      *)
(* number of calls.                                                        *)
(***************************************************************************)
MaxTotal == 3
MaxPiece == 2
MaxCalls == 3

Events == {"started", "completed", "stopped", "", "paused", "Started"}

InitAnnouncer ==
  /\ \E piece_len \in 1..MaxPiece, length \in 0..MaxTotal :
       /\ ann = NewAnnouncer("http://tracker/announce", piece_len, length,
                             "hash", "peer")
       /\ hist = [L |-> length, sum |-> 0, op |-> "NewAnnouncer", arg |-> "",
                  calls |-> 0]
  /\ pc = "announcer"
  /\ input = <<>>
  /\ data = NilV
  /\ err = Nil
  /\ pos = 0
  /\ torrent = <<>>
  /\ infoMap = <<>>
  /\ info = <<>>

HandleNewPieceLeeched ==
  /\ hist.calls < MaxCalls
  /\ \E n \in 0..MaxPiece :
       /\ ann' = handleNewPieceLeeched(ann, n)
       /\ hist' = [hist EXCEPT !.sum = @ + n, !.op = "handleNewPieceLeeched",
                               !.arg = "", !.calls = @ + 1]
  /\ UNCHANGED <<input, pc, data, err, pos, torrent, infoMap, info>>

HandleNewPieceSeeded ==
  /\ hist.calls < MaxCalls
  /\ ann' = handleNewPieceSeeded(ann)
  /\ hist' = [hist EXCEPT !.op = "handleNewPieceSeeded", !.arg = "",
                          !.calls = @ + 1]
  /\ UNCHANGED <<input, pc, data, err, pos, torrent, infoMap, info>>

SetEvent ==
  /\ hist.calls < MaxCalls
  /\ \E newEvent \in Events :
       /\ ann' = setEvent(ann, newEvent)
       /\ hist' = [hist EXCEPT !.op = "setEvent", !.arg = newEvent,
                               !.calls = @ + 1]
  /\ UNCHANGED <<input, pc, data, err, pos, torrent, infoMap, info>>

NextAnnouncer == HandleNewPieceLeeched \/ HandleNewPieceSeeded \/ SetEvent

SpecAnnouncer == InitAnnouncer /\ [][NextAnnouncer]_vars

(***************************************************************************)
(* Properties of the projection, under SpecProject.                        *)
(***************************************************************************)
MissingAnnounce == "missing required field 'announce'"
ConflictingLengthAndFiles == "info contains both length and files"
MissingLengthOrFiles == "info missing both length and files"

(* C1: projecting a top-level dictionary without announce fails with the   *)
(* missing-required-field error for announce, and projecting one whose     *)
(* announce is an integer fails with a different, wrong-type error.        *)
C1_AnnounceErrorsDistinct ==
  (pc = "parsedTorrent" /\ data.t = "map") =>
    /\ ~Has(data.v, K_announce) => err = MissingAnnounce
    /\ (Has(data.v, K_announce) /\ data.v[K_announce].t = "int64") =>
         (err # Nil /\ err # MissingAnnounce)

ScalarsOK(m) ==
  /\ Has(m, K_piece_length) /\ m[K_piece_length].t = "int64"
  /\ Has(m, K_pieces) /\ m[K_pieces].t = "string"
  /\ Has(m, K_name) /\ m[K_name].t = "string"

PrivateOK(m) == Has(m, K_private) => m[K_private].t = "int64"

LayoutRule(m) ==
  /\ (Has(m, K_length) /\ Has(m, K_files)) => err = ConflictingLengthAndFiles
  /\ (~Has(m, K_length) /\ ~Has(m, K_files)) => err = MissingLengthOrFiles
  /\ err = Nil => (Has(m, K_length) /\ ~Has(m, K_files))
                    \/ (~Has(m, K_length) /\ Has(m, K_files))

(* C2 as stated: for every info dictionary whose piece length, pieces and  *)
(* name are present and well typed, parseTorrentInfo fails with the        *)
(* conflicting error when both length and files are present, with the      *)
(* missing error when neither is, and succeeds only with exactly one.      *)
C2_LayoutRuleAnyPrivate ==
  (pc = "parsedInfo" /\ ScalarsOK(infoMap)) => LayoutRule(infoMap)

(* C2 amended: the same, for info dictionaries whose private field, when   *)
(* present, is an integer.                                                 *)
C2_LayoutRule ==
  (pc = "parsedInfo" /\ ScalarsOK(infoMap) /\ PrivateOK(infoMap))
    => LayoutRule(infoMap)

C2_Witness ==
  /\ pc = "parsedInfo"
  /\ ScalarsOK(infoMap) /\ PrivateOK(infoMap)
  /\ Has(infoMap, K_length) /\ infoMap[K_length].t # "int64"
  /\ Has(infoMap, K_files)
  /\ err = ConflictingLengthAndFiles

FirstScalarError(m) ==
  IF ~Has(m, K_piece_length) THEN "missing required field 'piece length'"
  ELSE IF m[K_piece_length].t # "int64" THEN "piece length is not an integer"
  ELSE IF ~Has(m, K_pieces) THEN "missing required field 'pieces'"
  ELSE IF m[K_pieces].t # "string" THEN "pieces is not a string"
  ELSE "missing required field 'name'"

(* C8: an info dictionary that lacks or mistypes a required scalar field   *)
(* reports the error of the first such field in the order piece length,    *)
(* pieces, name, and never the conflicting or missing length/files error,  *)
(* whatever its length and files entries are.                              *)
C8_ScalarsBeforeLayout ==
  (pc = "parsedInfo" /\ ~ScalarsOK(infoMap)) =>
    /\ err = FirstScalarError(infoMap)
    /\ err \notin {ConflictingLengthAndFiles, MissingLengthOrFiles}

C8_Witness ==
  /\ pc = "parsedInfo"
  /\ Has(infoMap, K_piece_length) /\ infoMap[K_piece_length].t = "int64"
  /\ ~Has(infoMap, K_pieces)
  /\ ~Has(infoMap, K_name)
  /\ Has(infoMap, K_length) /\ Has(infoMap, K_files)
  /\ err = "missing required field 'pieces'"

(***************************************************************************)
(* Properties of the decoder, under Spec.                                  *)
(***************************************************************************)
Occurs(in, c) == \E k \in 2..Len(in) : in[k] = c
FirstAt(in, c) == CHOOSE k \in 2..Len(in) : in[k] = c /\ \A j \in 2..(k - 1) : in[j] # c

MalformedBody(body) ==
  \/ body = <<>>
  \/ \E k \in 1..Len(body) : body[k] \notin Digit /\ ~(k = 1 /\ body[1] = "-")
  \/ body = <<"-", "0">>

(* C3: i0e decodes to 0 and i123e to 123; i<body>e fails when body is      *)
(* empty, holds a non-digit other than one leading '-', or is -0; and an   *)
(* input i... without an 'e' fails.                                        *)
C3_IntegerDecoding ==
  (pc = "decoded" /\ input # <<>> /\ input[1] = "i") =>
    /\ input = In_i0e => (err = Nil /\ data = IntV(0))
    /\ input = In_i123e => (err = Nil /\ data = IntV(123))
    /\ (Occurs(input, "e")
        /\ MalformedBody(SubSeq(input, 2, FirstAt(input, "e") - 1))) => err # Nil
    /\ ~Occurs(input, "e") => err # Nil

(* C4: on input <n>:<bytes>, n an unsigned decimal, the decode returns     *)
(* exactly the next n bytes and leaves the cursor right after them when    *)
(* at least n bytes follow the colon; when fewer follow it fails and no    *)
(* string value is returned to the caller of decode.                       *)
C4_StringFraming ==
  (/\ pc = "decoded" /\ input # <<>> /\ input[1] \in Digit
   /\ Occurs(input, ":")
   /\ \A k \in 1..(FirstAt(input, ":") - 1) : input[k] \in Digit) =>
    LET colon == FirstAt(input, ":")
        n == digitsValue(SubSeq(input, 1, colon - 1))
    IN IF Len(input) - colon >= n
       THEN /\ err = Nil
            /\ data = StrV(SubSeq(input, colon + 1, colon + n))
            /\ pos = colon + n
       ELSE /\ err # Nil
            /\ data.t # "string"

(* the cursor positions at which decodeDict, started after the 'd' at      *)
(* cursor p, decodes a key                                                 *)
RECURSIVE KeyPositions(_, _)
KeyPositions(in, p) ==
  IF p >= Len(in) \/ in[p + 1] = "e" THEN {}
  ELSE {p} \cup
       LET key == decodeString(in, p)
       IN IF key.err # Nil THEN {}
          ELSE LET value == decode(in, key.pos)
               IN IF value.err # Nil THEN {} ELSE KeyPositions(in, value.pos)

(* C5: when the byte at a key position of a dictionary is not an ASCII     *)
(* digit, the decode of the dictionary ends with an error value: the key   *)
(* is not accepted and the decode does not abort abnormally.               *)
C5_NonDigitKeyIsError ==
  (/\ pc \in {"decoded", "panicked"} /\ input # <<>> /\ input[1] = "d"
   /\ \E p \in KeyPositions(input, 1) : input[p + 1] \notin Digit) =>
    (pc = "decoded" /\ err # Nil)

Suffixes == {<<>>, <<"e">>, <<"e", "e">>} \cup {<<c>> : c \in Alphabet}

(* C6: a successful decode leaves the cursor right after the bytes of one  *)
(* value (after the closing 'e' of a list or dictionary), and the bytes it *)
(* consumed, followed by any suffix, decode to the same value and cursor.  *)
C6_ConsumesOneValue ==
  (pc = "decoded" /\ err = Nil) =>
    /\ 0 < pos /\ pos <= Len(input)
    /\ data.t \in {"list", "map"} => input[pos] = "e"
    /\ \A sfx \in Suffixes :
         LET r == decode(SubSeq(input, 1, pos) \o sfx, 0)
         IN r.err = Nil /\ r.pos = pos /\ r.val = data

C6_Witness ==
  /\ pc = "decoded" /\ err = Nil
  /\ data.t = "list" /\ Len(data.v) > 0 /\ data.v[1].t = "list"
  /\ pos < Len(input)

(* C7: DecodeTorrent returns either a Torrent and no error or no Torrent   *)
(* and an error, for every input, and an error raised inside a list        *)
(* reaches the caller of decode unchanged.                                 *)
C7_TorrentOrError ==
  /\ pc # "panicked"
  /\ pc = "done" => \/ (torrent # <<>> /\ err = Nil)
                    \/ (torrent = <<>> /\ err # Nil)
  /\ (/\ pc = "decoded" /\ Len(input) >= 2 /\ input[1] = "l" /\ input[2] # "e"
      /\ decode(input, 1).err # Nil) => err = decode(input, 1).err

EventNames == {"started", "completed", "stopped"}

Called(op) == hist'.op = op /\ hist'.calls = hist.calls + 1

(* C10: event is always started, completed, stopped or empty; setEvent(x)  *)
(* sets it to x when x is one of the three names and to the empty string   *)
(* otherwise, and changes nothing else; handleNewPieceSeeded adds          *)
(* piece_size to uploaded and changes nothing else; handleNewPieceLeeched  *)
(* changes downloaded and left only.                                       *)
C10_EventState ==
  /\ [](pc = "announcer" => ann.urlParams.event \in EventNames \cup {""})
  /\ [][/\ Called("setEvent") =>
             ann' = [ann EXCEPT !.urlParams.event =
                       IF hist'.arg \in EventNames THEN hist'.arg ELSE ""]
        /\ Called("handleNewPieceSeeded") =>
             ann' = [ann EXCEPT !.urlParams.uploaded = @ + ann.piece_size]
        /\ Called("handleNewPieceLeeched") =>
             /\ [ann' EXCEPT !.urlParams.downloaded = 0, !.urlParams.left = 0]
                  = [ann EXCEPT !.urlParams.downloaded = 0, !.urlParams.left = 0]
             /\ ann'.urlParams.downloaded
                  = ann.urlParams.downloaded + (hist'.sum - hist.sum)]_vars

C10_Witness ==
  /\ pc = "announcer"
  /\ hist.op = "setEvent" /\ hist.arg = "paused"
  /\ ann.urlParams.event = ""
  /\ ann.urlParams.uploaded > 0
  /\ ann.urlParams.downloaded > 0

====
